---- MODULE Spec2Model ----
(***************************************************************************)
(* Model of media_audio_normaliser: the batch engine (normalise_audio.py)  *)
(* and the filesystem watcher (watch.py).                                  *)
(*                                                                         *)
(* The specifications share the definitions of this module:                *)
(*   SpecSwap       one call of atomic_swap_with_retry, every step of which *)
(*                  may fail (PermissionError/OSError);                     *)
(*   FairSpecSwap   SpecSwap with a temporary output that may be taken     *)
(*                  away, and a thread that keeps running;                  *)
(*   Spec           scan_and_process: change detection, the worker pool and *)
(*                  the per-file workflow, in consecutive runs between      *)
(*                  which files are touched or replaced;                    *)
(*   SpecState      Spec started over a state file of any content;         *)
(*   SpecFile       one call of process_file, every file operation of which *)
(*                  may fail;                                               *)
(*   SpecSave       one call of save_state, statement by statement;        *)
(*   SpecPlan       the planning part of process_file: main audio stream,  *)
(*                  gain and command line, for every small stream list;    *)
(*   SpecWatch      the watcher: arrivals, the pending sweep, the pool and  *)
(*                  the per-file workflow; time is counted in seconds;      *)
(*   SpecOrphan     SpecWatch started in a tree that holds an orphaned      *)
(*                  temporary file;                                         *)
(*   SpecOwn        the watcher with the move events that the renames of   *)
(*                  its own workflows cause;                                *)
(*   FairSpecWatch  SpecWatch with threads and clock that keep running.     *)
(***************************************************************************)
EXTENDS Integers, Sequences, FiniteSets, TLC

VARIABLES
    fs,        \* the filesystem: file name -> file (NoFile when missing)
    doc,       \* the persisted state document: path -> record
    heap,      \* the in-memory state dicts, in order of creation by load_state
    task,      \* the worker-pool tasks: task id -> frame of worker/process_file
    lock,      \* holder of state_lock (0 = free)
    main,      \* the frame of scan_and_process
    env,       \* which file operations the environment lets fail, per path
    written,   \* history: path -> the record its last successful workflow stored
    handler,   \* VideoFileHandler: pending_files and the state attribute
    sweep,     \* the frame of _process_pending_loop
    now        \* the clock of the batch runs (the watcher's times are ages)

vars == <<fs, doc, heap, task, lock, main, env, written, handler, sweep, now>>

----------------------------------------------------------------------------
(* Bounds *)

Paths == {"a.mkv", "b.mkv"}
MaxBk == 2          \* unique backup suffixes a path can accumulate
MaxRuns == 2        \* consecutive batch runs
MaxChanges == 1     \* files changed from outside between two runs
MaxTasks == 2       \* files that arrive in the watched tree (one task each)
MaxEvents == 1      \* later writes to and removals of files in the watched tree

(* Program constants *)

WORKERS == 3
MIN_FILE_SIZE_BYTES == 52428800
MIN_OUTPUT_FILE_SIZE_BYTES == 1024
TARGET_PEAK_DBFS == -10       \* -0.1 dBFS, in hundredths of a dB
EPSILON_DB == 5               \* 0.05 dB, in hundredths of a dB
RETRIES == 6
MIN_WAIT_TIME == 5
SWEEP_INTERVAL == 3
STABILITY_SLEEP == 1

----------------------------------------------------------------------------
(* Files and names *)

NoFile == [size |-> -1, mtime |-> -1, data |-> -1]

Exists(n) == fs[n] # NoFile

Final(p) == <<p, "final", 0>>
\* path.with_name(path.stem + ".normalised.tmp" + path.suffix)
Tmp(p) == <<p, "tmp", 0>>
\* path.with_suffix(path.suffix + ".bak"), then one ".<time>" suffix per k
Bak(p, k) == <<p, "bak", k>>

Names == {Final(p) : p \in Paths} \cup {Tmp(p) : p \in Paths}
         \cup {Bak(p, k) : p \in Paths, k \in 0..(MaxBk + 1)}

BakNames(p) == {Bak(p, k) : k \in 0..(MaxBk + 1)}

\* The outcomes the environment allows for operation op on a file of path p:
\* "any" lets every operation succeed or fail; "ren1" and "ren2" make that
\* rename fail every time; "open" is a file that another process locks from
\* time to time, so that an open of it succeeds or fails.
Outcomes(p, op) ==
    IF env[p] = "any" \/ (env[p] = "open" /\ op = "open")
    THEN BOOLEAN ELSE {env[p] # op}

Env == Paths \cup {"state.json"}

\* the one path whose file operations the environment lets fail during a
\* batch run or a watcher session
FaultyPath == "a.mkv"

----------------------------------------------------------------------------
(* The Fingerprint Store *)

STATE_FILE == "state.json"

NoRec == [sig |-> <<-1, -1>>, qfp |-> <<"none", -1>>, done_at |-> -1]

\* {"files": {}}
EmptyState == [p \in Paths |-> NoRec]

\* f"{st.st_size}-{st.st_mtime_ns}"
file_signature(f) == <<f.size, f.mtime>>

\* the hash of the head, middle and tail blocks: contents 2k and 2k+1 differ
\* outside the three sampled blocks only
compute_quick_fingerprint(f) ==
    IF f.size = 0 THEN <<"zeros", 0>> ELSE <<"sha256", f.data \div 2>>

\* STATE_FILE + ".tmp" (line 108): missing, partially written, or a complete
\* document
NoStateTmp == [kind |-> "none", files |-> EmptyState]
PartialTmp == [kind |-> "partial", files |-> EmptyState]

\* the document at STATE_FILE: missing, or {"files": {...}}; tmp is the file
\* next to it
NoDoc == [kind |-> "missing", files |-> EmptyState, tmp |-> NoStateTmp]

\* a document of the given kind with nothing in it
DocOfKind(k) == [NoDoc EXCEPT !.kind = k]

\* a well-formed document
OkDoc(files) == [kind |-> "ok", files |-> files, tmp |-> NoStateTmp]

\* the other contents of STATE_FILE: a file that cannot be read, bytes that
\* are not UTF-8, text that is not JSON, a JSON value that is not an object,
\* an object without "files", an object whose "files" is not an object
Malformed ==
    {"unreadable", "notutf8", "notjson", "notobject", "nofiles", "filesnotmap"}

\* a "files" value that is no mapping (a list, a string, a number, null)
NotAMapping ==
    [p \in Paths |-> [sig |-> <<-2, -2>>, qfp |-> <<"none", -2>>, done_at |-> -2]]

\* lines 94-95 and 100: json.load raises UnicodeDecodeError, which is neither
\* a JSONDecodeError nor an IOError
load_raises(d) == d.kind = "notutf8"

\* lines 91-104: state["files"] of what load_state returns
load_state(d) ==
    IF d.kind = "ok" THEN d.files
    ELSE IF d.kind = "filesnotmap" THEN NotAMapping
    ELSE EmptyState

\* the ways lines 110-111 can end: the file is written, open fails, or
\* json.dump fails part of the way
WriteResults == IF FALSE \in Outcomes(STATE_FILE, "save")
                THEN {"ok", "open", "dump"} ELSE {"ok"}

\* a variant of the write that goes to the state file itself
write_tmp_inplace(d, data, res) ==
    IF res = "ok" THEN [d EXCEPT !.kind = "ok", !.files = data]
    ELSE IF res = "dump" THEN [d EXCEPT !.kind = "partial", !.files = EmptyState]
    ELSE d

\* lines 110-111: open(tmp, "w") and json.dump(data, f)
write_tmp(d, data, res) ==
    IF res = "ok" THEN [d EXCEPT !.tmp = [kind |-> "ok", files |-> data]]
    ELSE IF res = "dump" THEN [d EXCEPT !.tmp = PartialTmp]
    ELSE d

\* line 112: os.replace(tmp, path), when it succeeds
replace_tmp(d) ==
    IF d.tmp.kind = "none" THEN d
    ELSE [kind |-> d.tmp.kind, files |-> d.tmp.files, tmp |-> NoStateTmp]

\* lines 113-119: the warning, then a best-effort unlink of the tmp file
unlink_tmp(d, ok) == IF ok THEN [d EXCEPT !.tmp = NoStateTmp] ELSE d

\* lines 107-119, from the document d: every document save_state can leave
save_state(d, data) ==
    {IF res = "ok" /\ renamed
     THEN replace_tmp(write_tmp(d, data, res))
     ELSE unlink_tmp(write_tmp(d, data, res), unlinked) :
        res \in WriteResults,
        renamed \in Outcomes(STATE_FILE, "save"),
        unlinked \in Outcomes(STATE_FILE, "save")}

BigSize == 60000000
SmallSize == 1000

\* a video file as found in the library
SourceFile(d) == [size |-> BigSize, mtime |-> 1, data |-> d]

NoCall == [path |-> "", ret |-> "none", hashed |-> FALSE]

\* done and changed are history: the paths whose workflow stored a record in
\* the run before, and the paths whose file changed since
NoMain == [pc |-> "none", ref |-> 0, candidates |-> <<>>, i |-> 0,
           to_do |-> <<>>, last |-> NoCall, done |-> {}, changed |-> {}]
\* pending_files holds, per pending path, the seconds since its timestamp
\* was taken (-1: not pending); arrivals and events count what the
\* environment has done in the watched tree
NoHandler == [pending_files |-> [p \in Paths |-> -1], state |-> 0,
              arrivals |-> 0, events |-> 0]
\* timer: the seconds of the current sleep that remain
NoSweep == [pc |-> "none", timer |-> 0, candidates |-> {}, path |-> "",
            size1 |-> -1]

watcherVars == <<handler, sweep, now>>

----------------------------------------------------------------------------
(* The frame of a task *)

\* the locals of process_file that plan the transcode: the probed streams,
\* the main audio stream and the command line handed to the engine
NoPlan == [meta |-> <<>>, main_abs_idx |-> -1, cmd |-> <<>>]

NoTask == [pc |-> "free", path |-> "", ref |-> 0, attempt |-> 0, bk |-> 0,
           ok |-> FALSE, swap_success |-> FALSE, result |-> "none",
           orig |-> NoFile, gain_db |-> 0, error_msg |-> "none",
           plan |-> NoPlan]

Tasks == 1..MaxTasks

SetTask(t, r) == [task EXCEPT ![t] = r]

\* lines 692-696: backup = path + ".bak"; atomic_swap_with_retry(...)
SwapCall(f, original) ==
    [f EXCEPT !.pc = "sw_stale", !.attempt = 1, !.bk = 0, !.orig = original]

----------------------------------------------------------------------------
(* atomic_swap_with_retry *)

\* lines 385-392: remove a stale backup, or change to a unique backup name
SwapRemoveStale(t) ==
    LET f == task[t]
        b == Bak(f.path, f.bk)
    IN  /\ f.pc = "sw_stale"
        /\ IF Exists(b)
           THEN \E ok \in Outcomes(f.path, "unlink_stale") :
                  IF ok
                  THEN /\ fs' = [fs EXCEPT ![b] = NoFile]
                       /\ task' = SetTask(t, [f EXCEPT !.pc = "sw_ren1"])
                  ELSE /\ f.bk <= MaxBk
                       /\ fs' = fs
                       /\ task' = SetTask(t, [f EXCEPT !.pc = "sw_ren1",
                                                       !.bk = f.bk + 1])
           ELSE /\ fs' = fs
                /\ task' = SetTask(t, [f EXCEPT !.pc = "sw_ren1"])
        /\ UNCHANGED <<doc, heap, lock, main, env, written, watcherVars>>

\* line 394: os.replace(final_path, backup_path)
SwapRenameOriginal(t) ==
    LET f == task[t]
        b == Bak(f.path, f.bk)
        o == Final(f.path)
    IN  /\ f.pc = "sw_ren1"
        /\ \E ok \in Outcomes(f.path, "ren1") :
             IF ok /\ Exists(o)
             THEN /\ fs' = [fs EXCEPT ![b] = fs[o], ![o] = NoFile]
                  /\ task' = SetTask(t, [f EXCEPT !.pc = "sw_ren2"])
             ELSE /\ fs' = fs
                  /\ task' = SetTask(t, [f EXCEPT !.pc = "sw_except"])
        /\ UNCHANGED <<doc, heap, lock, main, env, written, watcherVars>>

\* line 395: os.replace(tmp_path, final_path)
SwapRenameTmp(t) ==
    LET f == task[t]
        o == Final(f.path)
        m == Tmp(f.path)
    IN  /\ f.pc = "sw_ren2"
        /\ \E ok \in Outcomes(f.path, "ren2") :
             IF ok /\ Exists(m)
             THEN /\ fs' = [fs EXCEPT ![o] = fs[m], ![m] = NoFile]
                  /\ task' = SetTask(t, [f EXCEPT !.pc = "sw_rmbak"])
             ELSE /\ fs' = fs
                  /\ task' = SetTask(t, [f EXCEPT !.pc = "sw_except"])
        /\ UNCHANGED <<doc, heap, lock, main, env, written, watcherVars>>

\* a variant in which a backup that cannot be removed is an error of the
\* attempt
SwapRemoveBackup_strict(t) ==
    LET f == task[t]
        b == Bak(f.path, f.bk)
    IN  /\ f.pc = "sw_rmbak"
        /\ \E ok \in Outcomes(f.path, "rmbak") :
             IF ok /\ Exists(b)
             THEN /\ fs' = [fs EXCEPT ![b] = NoFile]
                  /\ task' = SetTask(t, [f EXCEPT !.pc = "after_swap", !.ok = TRUE])
             ELSE /\ fs' = fs
                  /\ task' = SetTask(t, [f EXCEPT !.pc = "sw_except"])
        /\ UNCHANGED <<doc, heap, lock, main, env, written, watcherVars>>

\* lines 398-405: best-effort removal of the backup, return True
SwapRemoveBackup(t) ==
    LET f == task[t]
        b == Bak(f.path, f.bk)
    IN  /\ f.pc = "sw_rmbak"
        /\ \E ok \in Outcomes(f.path, "rmbak") :
             fs' = IF ok /\ Exists(b) THEN [fs EXCEPT ![b] = NoFile] ELSE fs
        /\ task' = SetTask(t, [f EXCEPT !.pc = "after_swap", !.ok = TRUE])
        /\ UNCHANGED <<doc, heap, lock, main, env, written, watcherVars>>

\* a variant of the handler whose test of the attempt count is off by one
SwapExcept_offbyone(t) ==
    LET f == task[t]
    IN  /\ f.pc = "sw_except"
        /\ task' = SetTask(t,
             IF ~Exists(Tmp(f.path))
             THEN [f EXCEPT !.pc = "after_swap", !.ok = FALSE]
             ELSE IF f.attempt <= RETRIES
                  THEN [f EXCEPT !.pc = "sw_stale", !.attempt = f.attempt + 1]
                  ELSE [f EXCEPT !.pc = "after_swap", !.ok = FALSE])
        /\ UNCHANGED <<fs, doc, heap, lock, main, env, written, watcherVars>>

\* lines 406-415: the handler of PermissionError/OSError
SwapExcept(t) ==
    LET f == task[t]
    IN  /\ f.pc = "sw_except"
        /\ task' = SetTask(t,
             IF ~Exists(Tmp(f.path))
             THEN [f EXCEPT !.pc = "after_swap", !.ok = FALSE]
             ELSE IF f.attempt < RETRIES
                  THEN [f EXCEPT !.pc = "sw_stale", !.attempt = f.attempt + 1]
                  ELSE [f EXCEPT !.pc = "after_swap", !.ok = FALSE])
        /\ UNCHANGED <<fs, doc, heap, lock, main, env, written, watcherVars>>

SwapStep(t) ==
    \/ SwapRemoveStale(t)
    \/ SwapRenameOriginal(t)
    \/ SwapRenameTmp(t)
    \/ SwapRemoveBackup(t)
    \/ SwapExcept(t)

----------------------------------------------------------------------------
(* process_file *)

\* the measured peaks the engine reports, in hundredths of a dB
Peaks == {-300, -15}

\* the sizes of the file the engine writes for path p: undersized or
\* complete, and in an unconstrained environment also the smallest size
\* that validation accepts
OutSizes(p) ==
    IF env[p] = "any"
    THEN {SmallSize, MIN_OUTPUT_FILE_SIZE_BYTES, BigSize}
    ELSE {SmallSize, BigSize}

\* the file the engine writes from source file src
Transcoded(src, size) ==
    [size |-> size, mtime |-> src.mtime + 1, data |-> src.data + 4]

\* the external tools can read the file at the path: it exists and the
\* environment does not refuse every open
Readable(p) == Exists(Final(p)) /\ TRUE \in Outcomes(p, "open")

\* what "return x" and "raise" hand to the caller of process_file
Returned(result) ==
    IF result = "ok" THEN "True"
    ELSE IF result = "error" THEN "raise" ELSE "False"

\* the frame once process_file has returned: its locals are gone
Finish(f, result) ==
    [NoTask EXCEPT !.pc = "finished", !.path = f.path, !.result = result]

\* lines 608-612: ffprobe_streams, find_main_audio_abs_index
Probe(t) ==
    LET f == task[t]
    IN  /\ f.pc = "probe"
        /\ \E r \in IF Readable(f.path)
                    THEN {"error", "noaudio", "audio"} ELSE {"error"} :
             task' = SetTask(t,
                 IF r = "error" THEN Finish(f, "error")
                 ELSE IF r = "noaudio" THEN Finish(f, "noaudio")
                 ELSE [f EXCEPT !.pc = "measure"])
        /\ UNCHANGED <<fs, doc, heap, lock, main, env, written, watcherVars>>

\* a variant of the decision of line 622 that excludes the threshold itself
AlreadyNormalised_strict(gain_db) == gain_db < EPSILON_DB

\* line 622: gain_db <= 0.05
AlreadyNormalised(gain_db) == gain_db <= EPSILON_DB

\* lines 614-622: measure_max_peak_db, the gain and the decision
Measure(t) ==
    LET f == task[t]
        outs == IF Readable(f.path)
                THEN {[res |-> r, peak |-> 0] : r \in {"error", "nopeak"}}
                     \cup {[res |-> "peak", peak |-> x] : x \in Peaks}
                ELSE {[res |-> "error", peak |-> 0]}
    IN  /\ f.pc = "measure"
        /\ \E r \in outs :
             task' = SetTask(t,
                 IF r.res = "error" THEN Finish(f, "error")
                 ELSE IF r.res = "nopeak" THEN Finish(f, "nopeak")
                 ELSE LET gain_db == TARGET_PEAK_DBFS - r.peak
                      IN  [f EXCEPT !.gain_db = gain_db,
                                    !.pc = IF AlreadyNormalised(gain_db)
                                           THEN "already" ELSE "transcode"])
        /\ UNCHANGED <<fs, doc, heap, lock, main, env, written, watcherVars>>

\* a variant of the record that keeps the mtime the file had before the
\* workflow wrote it
FreshRecord_stale(file) ==
    [sig |-> <<file.size, file.mtime - 1>>,
     qfp |-> compute_quick_fingerprint(file), done_at |-> now]

\* the record process_file builds for the file now at the path
FreshRecord(file) ==
    [sig |-> file_signature(file), qfp |-> compute_quick_fingerprint(file),
     done_at |-> now]

\* lines 624-629 and 704-709: with state_lock, state["files"][path] = {...};
\* stat or open of a missing or locked file, or a "files" value that is no
\* mapping, raises and releases the lock
Record(t, from, to, exc) ==
    LET f == task[t]
        file == fs[Final(f.path)]
    IN  /\ f.pc = from
        /\ lock = 0
        /\ \E ok \in Outcomes(f.path, "open") :
             IF ok /\ Exists(Final(f.path)) /\ heap[f.ref] # NotAMapping
             THEN /\ heap' = [heap EXCEPT ![f.ref][f.path] = FreshRecord(file)]
                  /\ written' = [written EXCEPT ![f.path] = FreshRecord(file)]
                  /\ lock' = t
                  /\ task' = SetTask(t, [f EXCEPT !.pc = to])
             ELSE /\ task' = SetTask(t,
                       IF exc = "finished" THEN Finish(f, "error")
                       ELSE [f EXCEPT !.pc = exc, !.result = "error"])
                  /\ UNCHANGED <<heap, written, lock>>
        /\ UNCHANGED <<fs, doc, main, env, watcherVars>>

\* lines 630-631 and 710-712: save_state(STATE_FILE, state), leave the lock
Save(t, from, to, result) ==
    LET f == task[t]
    IN  /\ f.pc = from
        /\ lock = t
        /\ doc' \in save_state(doc, heap[f.ref])
        /\ lock' = 0
        /\ task' = SetTask(t,
             IF to = "finished" THEN Finish(f, result)
             ELSE [f EXCEPT !.pc = to, !.result = result])
        /\ UNCHANGED <<fs, heap, main, env, written, watcherVars>>

RecordAlready(t) == Record(t, "already", "already_save", "finished")
SaveAlready(t) == Save(t, "already_save", "finished", "already")

\* apply_peak_gain(path, tmp_path, ..., skip_subtitles): the engine ends
\* well, or fails with one of the known subtitle/container signatures in its
\* diagnostic, or fails otherwise (a timeout included); it leaves a complete
\* output, a partial one or none
apply_peak_gain(t, from, skip_subtitles) ==
    LET f == task[t]
        src == fs[Final(f.path)]
        outs == IF Readable(f.path)
                THEN {[res |-> "ok", tmp |-> x] :
                        x \in {Transcoded(src, z) : z \in OutSizes(f.path)}
                              \cup {NoFile}}
                     \cup {[res |-> r, tmp |-> x] :
                             r \in {"subtitle", "fail"},
                             x \in {NoFile, Transcoded(src, SmallSize)}}
                ELSE {[res |-> "fail", tmp |-> fs[Tmp(f.path)]]}
    IN  /\ f.pc = from
        /\ \E o \in outs :
             /\ fs' = [fs EXCEPT ![Tmp(f.path)] = o.tmp]
             /\ task' = SetTask(t,
                  IF o.res = "ok" THEN [f EXCEPT !.pc = "validate"]
                  ELSE IF o.res = "subtitle" /\ ~skip_subtitles
                       THEN [f EXCEPT !.pc = "fallback",
                                      !.error_msg = "subtitle"]
                       ELSE [f EXCEPT !.pc = "finally", !.result = "error",
                                      !.error_msg = "none"])
        /\ UNCHANGED <<doc, heap, lock, main, env, written, watcherVars>>

\* lines 640-651: the first invocation, with subtitles
Transcode(t) == apply_peak_gain(t, "transcode", FALSE)

\* a variant of the fallback that leaves the failed temporary output
Fallback_keep(t) ==
    LET f == task[t]
    IN  /\ f.pc = "fallback"
        /\ task' = SetTask(t, [f EXCEPT !.pc = "transcode_nosub"])
        /\ UNCHANGED <<fs, doc, heap, lock, main, env, written, watcherVars>>

\* lines 652-672: the failed temporary output is deleted before the retry
Fallback(t) ==
    LET f == task[t]
        m == Tmp(f.path)
    IN  /\ f.pc = "fallback"
        /\ IF Exists(m)
           THEN \E ok \in Outcomes(f.path, "rmtmp") :
                  IF ok
                  THEN /\ fs' = [fs EXCEPT ![m] = NoFile]
                       /\ task' = SetTask(t, [f EXCEPT !.pc = "transcode_nosub"])
                  ELSE /\ fs' = fs
                       /\ task' = SetTask(t, [f EXCEPT !.pc = "finally",
                                                       !.result = "error"])
           ELSE /\ fs' = fs
                /\ task' = SetTask(t, [f EXCEPT !.pc = "transcode_nosub"])
        /\ UNCHANGED <<doc, heap, lock, main, env, written, watcherVars>>

\* lines 673-681: the second invocation, without subtitles
TranscodeNoSubtitles(t) == apply_peak_gain(t, "transcode_nosub", TRUE)

\* a variant of the validation that only tests that the output exists
ValidOutput_exists(file) == file # NoFile

\* lines 686-689: the output exists and is not smaller than the minimum
ValidOutput(file) ==
    ~(file = NoFile \/ file.size < MIN_OUTPUT_FILE_SIZE_BYTES)

\* lines 686-696: validation, then the call of atomic_swap_with_retry
\* (error_msg is not read after the except block)
Validate(t) ==
    LET f == [task[t] EXCEPT !.error_msg = "none"]
    IN  /\ f.pc = "validate"
        /\ task' = SetTask(t,
             IF ValidOutput(fs[Tmp(f.path)])
             THEN SwapCall(f, fs[Final(f.path)])
             ELSE [f EXCEPT !.pc = "finally", !.result = "error"])
        /\ UNCHANGED <<fs, doc, heap, lock, main, env, written, watcherVars>>

\* lines 697-702
AfterSwap(t) ==
    LET f == task[t]
    IN  /\ f.pc = "after_swap"
        /\ task' = SetTask(t,
             IF f.ok THEN [f EXCEPT !.pc = "record", !.swap_success = TRUE]
             ELSE [f EXCEPT !.pc = "finally", !.result = "swapfail"])
        /\ UNCHANGED <<fs, doc, heap, lock, main, env, written, watcherVars>>

RecordDone(t) == Record(t, "record", "record_save", "finally")
SaveDone(t) == Save(t, "record_save", "finally", "ok")

\* a variant of the finally block that removes the temporary file whenever
\* it exists
Finally_always(t) ==
    LET f == task[t]
        m == Tmp(f.path)
    IN  /\ f.pc = "finally"
        /\ fs' = [fs EXCEPT ![m] = NoFile]
        /\ task' = SetTask(t, Finish(f, f.result))
        /\ UNCHANGED <<doc, heap, lock, main, env, written, watcherVars>>

\* lines 714-720: the temporary file is removed only after a successful swap
Finally(t) ==
    LET f == task[t]
        m == Tmp(f.path)
    IN  /\ f.pc = "finally"
        /\ \E ok \in Outcomes(f.path, "rmtmp") :
             fs' = IF Exists(m) /\ f.swap_success /\ ok
                   THEN [fs EXCEPT ![m] = NoFile] ELSE fs
        /\ task' = SetTask(t, Finish(f, f.result))
        /\ UNCHANGED <<doc, heap, lock, main, env, written, watcherVars>>

process_file(t) ==
    \/ Probe(t)
    \/ Measure(t)
    \/ RecordAlready(t)
    \/ SaveAlready(t)
    \/ Transcode(t)
    \/ Fallback(t)
    \/ TranscodeNoSubtitles(t)
    \/ Validate(t)
    \/ SwapStep(t)
    \/ AfterSwap(t)
    \/ RecordDone(t)
    \/ SaveDone(t)
    \/ Finally(t)

----------------------------------------------------------------------------
(* should_process and scan_and_process *)

PathSeq == <<"a.mkv", "b.mkv">>

\* path.suffix.lower() in VIDEO_EXTS
VideoNamed == {"a.mkv", "b.mkv", "sample.mkv"}

\* any(tok in name for tok in SAMPLE_NAME_TOKENS)
SampleNamed == {"sample.mkv"}

\* lines 446-457
should_skip_as_sample(p, file) ==
    \/ p \in SampleNamed
    \/ file = NoFile
    \/ file.size < MIN_FILE_SIZE_BYTES

\* a variant of should_process without the signature comparison of line 473
should_process_nosig(p, files, file, openok) ==
    LET rec == files[p]
        sig_now == file_signature(file)
        qfp_now == compute_quick_fingerprint(file)
        leave(ret, hashed) ==
            [ret |-> ret, hashed |-> hashed, rec |-> rec, save |-> FALSE]
    IN  IF p \notin VideoNamed THEN leave("False", FALSE)
        ELSE IF should_skip_as_sample(p, file) THEN leave("False", FALSE)
        ELSE IF files = NotAMapping THEN leave("raise", FALSE)
        ELSE IF rec = NoRec THEN leave("True", FALSE)
        ELSE IF ~openok THEN leave("raise", TRUE)
        ELSE IF rec.qfp = qfp_now
             THEN [ret |-> "False", hashed |-> TRUE,
                   rec |-> [rec EXCEPT !.sig = sig_now, !.done_at = now],
                   save |-> TRUE]
             ELSE leave("True", TRUE)

\* a variant of should_process without the record update of lines 479-483
should_process_noupdate(p, files, file, openok) ==
    LET rec == files[p]
        sig_now == file_signature(file)
        qfp_now == compute_quick_fingerprint(file)
        leave(ret, hashed) ==
            [ret |-> ret, hashed |-> hashed, rec |-> rec, save |-> FALSE]
    IN  IF p \notin VideoNamed THEN leave("False", FALSE)
        ELSE IF should_skip_as_sample(p, file) THEN leave("False", FALSE)
        ELSE IF files = NotAMapping THEN leave("raise", FALSE)
        ELSE IF rec = NoRec THEN leave("True", FALSE)
        ELSE IF rec.sig = sig_now THEN leave("False", FALSE)
        ELSE IF ~openok THEN leave("raise", TRUE)
        ELSE IF rec.qfp = qfp_now THEN leave("False", TRUE)
        ELSE leave("True", TRUE)

\* lines 460-486. files is state["files"], file the file at the path, openok
\* whether the file can be opened for reading. The result: what is returned
\* (or "raise"), whether the quick fingerprint was computed, the record of
\* the path afterwards and whether the state was saved.
should_process(p, files, file, openok) ==
    LET rec == files[p]
        sig_now == file_signature(file)
        qfp_now == compute_quick_fingerprint(file)
        leave(ret, hashed) ==
            [ret |-> ret, hashed |-> hashed, rec |-> rec, save |-> FALSE]
    IN  IF p \notin VideoNamed THEN leave("False", FALSE)
        ELSE IF should_skip_as_sample(p, file) THEN leave("False", FALSE)
        ELSE IF files = NotAMapping THEN leave("raise", FALSE)
        ELSE IF rec = NoRec THEN leave("True", FALSE)
        ELSE IF rec.sig = sig_now THEN leave("False", FALSE)
        ELSE IF ~openok THEN leave("raise", TRUE)
        ELSE IF rec.qfp = qfp_now
             THEN [ret |-> "False", hashed |-> TRUE,
                   rec |-> [rec EXCEPT !.sig = sig_now, !.done_at = now],
                   save |-> TRUE]
             ELSE leave("True", TRUE)

\* line 737, lines 420-442: every temporary file is unlinked, best effort
cleanup_orphan_tmps ==
    /\ main.pc = "start"
    /\ \E S \in SUBSET {p \in Paths : Exists(Tmp(p))} :
         /\ \A p \in Paths :
              Exists(Tmp(p)) =>
                  (IF p \in S THEN TRUE ELSE FALSE) \in Outcomes(p, "rmtmp")
         /\ fs' = [n \in Names |->
                     IF \E p \in S : n = Tmp(p) THEN NoFile ELSE fs[n]]
    /\ main' = [main EXCEPT !.pc = "load"]
    /\ UNCHANGED <<doc, heap, task, lock, env, written, watcherVars>>

\* line 738: state = load_state(STATE_FILE); an exception leaves
\* scan_and_process
LoadState ==
    /\ main.pc = "load"
    /\ IF load_raises(doc)
       THEN /\ heap' = heap
            /\ main' = [main EXCEPT !.pc = "crashed"]
       ELSE /\ heap' = Append(heap, load_state(doc))
            /\ main' = [main EXCEPT !.pc = "collect", !.ref = Len(heap) + 1]
    /\ UNCHANGED <<fs, doc, task, lock, env, written, watcherVars>>

\* line 739, lines 723-733: the video files under the roots, in scan order
scan_and_collect ==
    /\ main.pc = "collect"
    /\ main' = [main EXCEPT
                  !.pc = "filter",
                  !.candidates = SelectSeq(PathSeq,
                      LAMBDA p : Exists(Final(p)) /\ p \in VideoNamed),
                  !.i = 1,
                  !.to_do = <<>>]
    /\ UNCHANGED <<fs, doc, heap, task, lock, env, written, watcherVars>>

\* line 740: one evaluation of should_process in the list comprehension; an
\* exception leaves scan_and_process, nothing catches it
Filter ==
    /\ main.pc = "filter"
    /\ main.i <= Len(main.candidates)
    /\ lock = 0
    /\ LET p == main.candidates[main.i]
       IN  \E openok \in Outcomes(p, "open") :
             LET r == should_process(p, heap[main.ref], fs[Final(p)], openok)
                 st == [heap[main.ref] EXCEPT ![p] = r.rec]
             IN  /\ heap' = [heap EXCEPT ![main.ref] = st]
                 /\ IF r.save
                    THEN doc' \in save_state(doc, st)
                    ELSE doc' = doc
                 /\ main' = [main EXCEPT
                      !.pc = IF r.ret = "raise" THEN "crashed" ELSE "filter",
                      !.i = IF r.ret = "raise" THEN main.i ELSE main.i + 1,
                      !.to_do = IF r.ret = "True"
                                THEN Append(main.to_do, p) ELSE main.to_do,
                      !.last = [path |-> p, ret |-> r.ret, hashed |-> r.hashed]]
    /\ UNCHANGED <<fs, task, lock, env, written, watcherVars>>

\* lines 742-757: nothing to do, or one task per file handed to the pool
Submit ==
    /\ main.pc = "filter"
    /\ main.i > Len(main.candidates)
    /\ IF main.to_do = <<>>
       THEN /\ main' = [main EXCEPT !.pc = "done", !.done = {}, !.changed = {}]
            /\ task' = task
       ELSE /\ main' = [main EXCEPT !.pc = "wait"]
            /\ task' = [t \in Tasks |->
                          IF t <= Len(main.to_do)
                          THEN [NoTask EXCEPT !.pc = "queued",
                                              !.path = main.to_do[t],
                                              !.ref = main.ref]
                          ELSE NoTask]
    /\ UNCHANGED <<fs, doc, heap, lock, env, written, watcherVars>>

Running ==
    {t \in Tasks : task[t].pc \notin {"free", "queued", "w_queued", "finished"}}

\* lines 748-750: a pool thread takes the task and calls process_file
StartTask(t) ==
    /\ task[t].pc = "queued"
    /\ Cardinality(Running) < WORKERS
    /\ task' = SetTask(t, [task[t] EXCEPT !.pc = "probe"])
    /\ UNCHANGED <<fs, doc, heap, lock, main, env, written, watcherVars>>

\* lines 758-765: every future has completed, the pool is shut down
Completed ==
    /\ main.pc = "wait"
    /\ \A t \in Tasks : task[t].pc \in {"free", "finished"}
    /\ main' = [main EXCEPT
                  !.pc = "done",
                  !.changed = {},
                  !.done = {task[t].path : t \in
                              {u \in Tasks : task[u].result \in {"ok", "already"}}}]
    /\ task' = [t \in Tasks |-> NoTask]
    /\ UNCHANGED <<fs, doc, heap, lock, env, written, watcherVars>>

\* between two runs: the mtime of a file changes, its content does not
EnvTouch(p) ==
    /\ main.pc = "done"
    /\ now < MaxRuns
    /\ Cardinality(main.changed) < MaxChanges
    /\ p \notin main.changed
    /\ Exists(Final(p))
    /\ fs' = [fs EXCEPT ![Final(p)].mtime = @ + 1]
    /\ main' = [main EXCEPT !.changed = @ \cup {p}]
    /\ UNCHANGED <<doc, heap, task, lock, env, written, watcherVars>>

\* between two runs: a file is replaced by one with other content
EnvModify(p) ==
    /\ main.pc = "done"
    /\ now < MaxRuns
    /\ Cardinality(main.changed) < MaxChanges
    /\ p \notin main.changed
    /\ Exists(Final(p))
    /\ fs' = [fs EXCEPT ![Final(p)].mtime = @ + 1, ![Final(p)].data = @ + 2]
    /\ main' = [main EXCEPT !.changed = @ \cup {p}]
    /\ UNCHANGED <<doc, heap, task, lock, env, written, watcherVars>>

\* the script is started again
NextRun ==
    /\ main.pc = "done"
    /\ now < MaxRuns
    /\ main' = [main EXCEPT !.pc = "start", !.last = NoCall]
    /\ task' = task
    /\ now' = now + 1
    /\ heap' = <<>>
    /\ written' = EmptyState
    /\ UNCHANGED <<fs, doc, lock, env, handler, sweep>>

\* the faults of a run: no fault, a path that no rename can take, a file
\* that another process locks from time to time
BatchModes == {"none", "ren2", "open"}

\* a library of untouched files and a state file of one of the given kinds
InitBatch(kinds) ==
    /\ fs = [n \in Names |->
               IF \E p \in Paths : n = Final(p) THEN SourceFile(0) ELSE NoFile]
    /\ \E k \in kinds : doc = DocOfKind(k)
    /\ heap = <<>>
    /\ task = [t \in Tasks |-> NoTask]
    /\ lock = 0
    /\ main = [NoMain EXCEPT !.pc = "start"]
    /\ \E m \in BatchModes :
         env = [p \in Env |-> IF p = FaultyPath THEN m ELSE "none"]
    /\ written = EmptyState
    /\ handler = NoHandler
    /\ sweep = NoSweep
    /\ now = 1

\* the first run: no state file yet
Init == InitBatch({"missing"})

Next ==
    \/ cleanup_orphan_tmps
    \/ LoadState
    \/ scan_and_collect
    \/ Filter
    \/ Submit
    \/ \E t \in Tasks : StartTask(t)
    \/ \E t \in Tasks : process_file(t)
    \/ Completed
    \/ \E p \in Paths : EnvTouch(p)
    \/ \E p \in Paths : EnvModify(p)
    \/ NextRun

Spec == Init /\ [][Next]_vars

\* the batch runs started over a state file of any content
InitState == InitBatch({"missing"} \cup Malformed)

SpecState == InitState /\ [][Next]_vars

----------------------------------------------------------------------------
(* SpecSwap: one call of atomic_swap_with_retry(path, tmp, backup) *)


InitSwap ==
    /\ \E stale \in BOOLEAN :
         fs = [n \in Names |->
                 IF n = Final("a.mkv") THEN SourceFile(0)
                 ELSE IF n = Tmp("a.mkv")
                      THEN [size |-> BigSize, mtime |-> 2, data |-> 2]
                 ELSE IF n = Bak("a.mkv", 0) /\ stale
                      THEN [size |-> BigSize, mtime |-> 0, data |-> 1]
                 ELSE NoFile]
    /\ task = [t \in Tasks |->
                IF t = 1
                THEN SwapCall([NoTask EXCEPT !.path = "a.mkv"], SourceFile(0))
                ELSE NoTask]
    /\ env = [p \in Env |-> "any"]
    /\ doc = NoDoc
    /\ heap = <<>>
    /\ lock = 0
    /\ main = NoMain
    /\ written = EmptyState
    /\ handler = NoHandler
    /\ sweep = NoSweep
    /\ now = 0

NextSwap == \E t \in Tasks : SwapStep(t)

SpecSwap == InitSwap /\ [][NextSwap]_vars

\* another process (a scanner, the user) removes the temporary output while
\* the swap of its path is under way
EnvRemoveTmp(p) ==
    /\ \E t \in Tasks :
         /\ task[t].path = p
         /\ task[t].pc \in {"sw_stale", "sw_ren1", "sw_ren2", "sw_except"}
    /\ Exists(Tmp(p))
    /\ fs' = [fs EXCEPT ![Tmp(p)] = NoFile]
    /\ UNCHANGED <<doc, heap, task, lock, main, env, written, watcherVars>>

NextSwapEnv ==
    \/ \E t \in Tasks : SwapStep(t)
    \/ \E p \in Paths : EnvRemoveTmp(p)

\* the call in an environment that may take the temporary output away; the
\* thread that runs the call keeps running (the sleeps of the backoff end)
FairSpecSwap ==
    /\ InitSwap
    /\ [][NextSwapEnv]_vars
    /\ WF_vars(\E t \in Tasks : SwapStep(t))

----------------------------------------------------------------------------
(* SpecFile: one call of process_file(path, state), in an environment where *)
(* every file operation and the write of the state file may fail            *)

\* a record stored by an earlier run
OldRecord == [sig |-> <<BigSize, 0>>, qfp |-> <<"sha256", 1>>, done_at |-> 0]

InitFile ==
    /\ \E stale \in BOOLEAN :
         fs = [n \in Names |->
                 IF n = Final("a.mkv") THEN SourceFile(0)
                 ELSE IF n = Bak("a.mkv", 0) /\ stale
                      THEN [size |-> BigSize, mtime |-> 0, data |-> 1]
                 ELSE NoFile]
    /\ \E d \in {NoDoc, OkDoc([EmptyState EXCEPT !["b.mkv"] = OldRecord])} :
         /\ doc = d
         /\ heap = <<load_state(d)>>
    /\ task = [t \in Tasks |->
                IF t = 1
                THEN [NoTask EXCEPT !.pc = "probe", !.path = "a.mkv", !.ref = 1]
                ELSE NoTask]
    /\ env = [p \in Env |-> "any"]
    /\ lock = 0
    /\ main = NoMain
    /\ written = EmptyState
    /\ handler = NoHandler
    /\ sweep = NoSweep
    /\ now = 1

NextFile == \E t \in Tasks : process_file(t)

SpecFile == InitFile /\ [][NextFile]_vars

----------------------------------------------------------------------------
(* SpecSave: one call of save_state(STATE_FILE, state), statement by        *)
(* statement, every file operation of which may fail                        *)

\* lines 110-111: the with block that writes the tmp file
SaveWrite(t) ==
    LET f == task[t]
    IN  /\ f.pc = "sv_write"
        /\ \E res \in WriteResults :
             /\ doc' = write_tmp(doc, heap[f.ref], res)
             /\ task' = SetTask(t,
                  [f EXCEPT !.pc = IF res = "ok" THEN "sv_replace"
                                   ELSE "sv_except"])
        /\ UNCHANGED <<fs, heap, lock, main, env, written, watcherVars>>

\* line 112: os.replace(tmp, path)
SaveReplace(t) ==
    LET f == task[t]
    IN  /\ f.pc = "sv_replace"
        /\ \E ok \in Outcomes(STATE_FILE, "save") :
             IF ok
             THEN /\ doc' = replace_tmp(doc)
                  /\ task' = SetTask(t, [f EXCEPT !.pc = "sv_return", !.ok = TRUE])
             ELSE /\ doc' = doc
                  /\ task' = SetTask(t, [f EXCEPT !.pc = "sv_except"])
        /\ UNCHANGED <<fs, heap, lock, main, env, written, watcherVars>>

\* lines 113-119: except Exception: the warning and the best-effort unlink;
\* save_state returns None
SaveExcept(t) ==
    LET f == task[t]
    IN  /\ f.pc = "sv_except"
        /\ \E ok \in Outcomes(STATE_FILE, "save") :
             doc' = unlink_tmp(doc, ok)
        /\ task' = SetTask(t, [f EXCEPT !.pc = "sv_return", !.ok = FALSE])
        /\ UNCHANGED <<fs, heap, lock, main, env, written, watcherVars>>

\* the stores handed to save_state
SavedStores ==
    {EmptyState,
     [EmptyState EXCEPT !["a.mkv"] = OldRecord],
     [EmptyState EXCEPT !["b.mkv"] = OldRecord],
     [p \in Paths |-> OldRecord]}

\* the caller holds state_lock; the state file is missing, well formed or
\* no JSON, and an earlier save may have left its tmp file behind
InitSave ==
    /\ fs = [n \in Names |-> NoFile]
    /\ \E d \in {NoDoc, DocOfKind("notjson"),
                 OkDoc([EmptyState EXCEPT !["b.mkv"] = OldRecord])},
          left \in {NoStateTmp, PartialTmp,
                    [kind |-> "ok", files |-> EmptyState]} :
         doc = [d EXCEPT !.tmp = left]
    /\ \E data \in SavedStores : heap = <<data>>
    /\ task = [t \in Tasks |->
                IF t = 1 THEN [NoTask EXCEPT !.pc = "sv_write", !.ref = 1]
                ELSE NoTask]
    /\ env = [p \in Env |-> "any"]
    /\ lock = 1
    /\ main = NoMain
    /\ written = EmptyState
    /\ handler = NoHandler
    /\ sweep = NoSweep
    /\ now = 1

NextSave == \E t \in Tasks : SaveWrite(t) \/ SaveReplace(t) \/ SaveExcept(t)

SpecSave == InitSave /\ [][NextSave]_vars

----------------------------------------------------------------------------
(* SpecPlan: the planning part of process_file for one file: the choice of  *)
(* the main audio stream, the gain and the command line of the transcode    *)

MaxStreams == 3

\* a stream as ffprobe reports it; index is the position in the container
Stream(i, k) == [index |-> i, codec_type |-> k.codec_type,
                 codec_name |-> k.codec_name, default |-> k.default]

\* the kinds of stream a container holds
StreamKinds ==
    {[codec_type |-> ty, codec_name |-> "none", default |-> 0] :
        ty \in {"video", "subtitle", "data"}}
    \cup {[codec_type |-> "audio", codec_name |-> c, default |-> d] :
            c \in {"aac", "flac", "dts"}, d \in {0, 1}}

\* meta["streams"] of every container of at most MaxStreams streams
StreamLists ==
    UNION {{[i \in 1..n |-> Stream(i - 1, ks[i])] : ks \in [1..n -> StreamKinds]} :
             n \in 0..MaxStreams}

\* [s for s in streams if s.get("codec_type") == "audio"]
RECURSIVE AudioStreams(_)
AudioStreams(streams) ==
    IF streams = <<>> THEN <<>>
    ELSE IF Head(streams).codec_type = "audio"
         THEN <<Head(streams)>> \o AudioStreams(Tail(streams))
         ELSE AudioStreams(Tail(streams))

\* a variant that takes the first audio stream whatever its disposition
find_main_audio_first(streams) ==
    LET audio_streams == AudioStreams(streams)
    IN  IF audio_streams = <<>> THEN -1 ELSE audio_streams[1].index

\* lines 193-201; -1 stands for None
find_main_audio_abs_index(streams) ==
    LET audio_streams == AudioStreams(streams)
        flagged == {i \in 1..Len(audio_streams) : audio_streams[i].default = 1}
    IN  IF audio_streams = <<>> THEN -1
        ELSE IF flagged # {}
             THEN audio_streams[CHOOSE i \in flagged :
                                  \A j \in flagged : i <= j].index
             ELSE audio_streams[1].index

\* a variant of the mapping that numbers the audio streams by their absolute
\* index
build_audio_absindex_identity(streams) ==
    [x \in {streams[i].index :
              i \in {j \in 1..Len(streams) : streams[j].codec_type = "audio"}}
       |-> x]

\* lines 204-210: absolute index of an audio stream -> its rank among the
\* audio streams
build_audio_absindex_to_order(streams) ==
    [x \in {streams[i].index :
              i \in {j \in 1..Len(streams) : streams[j].codec_type = "audio"}}
       |-> Cardinality({j \in 1..Len(streams) :
                          /\ streams[j].codec_type = "audio"
                          /\ streams[j].index < x})]

\* lines 270-274, with PREFER_DOWNMAP and CODEC_ENCODER_MAP
encoder_for_codec(codec_name) ==
    IF codec_name = "dts" THEN "ac3"
    ELSE IF codec_name \in {"aac", "flac"} THEN codec_name
    ELSE "aac"

AUDIO_BITRATE == "192k"

\* lines 356-367: the codec options of the audio streams from the i-th on
RECURSIVE AudioCodecs(_, _, _)
AudioCodecs(audio_streams, abs_to_aorder, main_abs_index) ==
    IF audio_streams = <<>> THEN <<>>
    ELSE LET st == Head(audio_streams)
             a_ord == ToString(abs_to_aorder[st.index])
             enc == encoder_for_codec(st.codec_name)
             own == IF st.index = main_abs_index
                    THEN <<"-c:a:" \o a_ord, enc>>
                         \o (IF enc \notin {"flac", "alac", "truehd",
                                            "pcm_s16le", "pcm_s24le"}
                             THEN <<"-b:a:" \o a_ord, AUDIO_BITRATE>>
                             ELSE <<>>)
                    ELSE <<"-c:a:" \o a_ord, "copy">>
         IN  own \o AudioCodecs(Tail(audio_streams), abs_to_aorder,
                                main_abs_index)

\* lines 332-369: maps, codecs and main_audio_order (the caller passes an
\* index that find_main_audio_abs_index returned, so line 350 does not raise)
build_map_and_codecs(streams, main_abs_index, skip_subtitles) ==
    LET abs_to_aorder == build_audio_absindex_to_order(streams)
    IN  [maps |-> IF skip_subtitles
                  THEN <<"-map", "0:v?", "-map", "0:a">>
                  ELSE <<"-map", "0">>,
         codecs |-> <<"-c:v", "copy", "-c:d", "copy">>
                    \o (IF skip_subtitles THEN <<>> ELSE <<"-c:s", "copy">>)
                    \o AudioCodecs(AudioStreams(streams), abs_to_aorder,
                                   main_abs_index),
         main_audio_order |-> abs_to_aorder[main_abs_index]]

\* n < 1000 written with three digits
Pad3(n) == (IF n < 100 THEN "0" ELSE "") \o (IF n < 10 THEN "0" ELSE "")
           \o ToString(n)

\* n < 100 written with two digits (for the variant below)
Pad2(n) == (IF n < 10 THEN "0" ELSE "") \o ToString(n)

\* a variant of the filter text with two decimals
volume_filter_2f(gain_db) ==
    LET a == IF gain_db < 0 THEN -gain_db ELSE gain_db
    IN  "volume=" \o (IF gain_db < 0 THEN "-" ELSE "+")
        \o ToString(a \div 100) \o "." \o Pad2(a % 100) \o "dB"

\* line 511: f"volume={gain_db:+.3f}dB", gain_db in hundredths of a dB
volume_filter(gain_db) ==
    LET a == IF gain_db < 0 THEN -gain_db ELSE gain_db
    IN  "volume=" \o (IF gain_db < 0 THEN "-" ELSE "+")
        \o ToString(a \div 100) \o "." \o Pad3((a % 100) * 10) \o "dB"

\* lines 608-612: find_main_audio_abs_index(meta); None ends the workflow
PlanFind(t) ==
    LET f == task[t]
        idx == find_main_audio_abs_index(f.plan.meta)
    IN  /\ f.pc = "pl_find"
        /\ task' = SetTask(t,
             IF idx = -1 THEN Finish(f, "noaudio")
             ELSE [f EXCEPT !.pc = "pl_measure", !.plan.main_abs_idx = idx])
        /\ UNCHANGED <<fs, doc, heap, lock, main, env, written, watcherVars>>

\* lines 614-622: the measured peak, the gain and the decision
PlanMeasure(t) ==
    LET f == task[t]
    IN  /\ f.pc = "pl_measure"
        /\ \E peak \in Peaks :
             LET gain_db == TARGET_PEAK_DBFS - peak
             IN  task' = SetTask(t,
                     [f EXCEPT !.gain_db = gain_db,
                               !.pc = IF AlreadyNormalised(gain_db)
                                      THEN "pl_already" ELSE "pl_command"])
        /\ UNCHANGED <<fs, doc, heap, lock, main, env, written, watcherVars>>

\* apply_peak_gain, lines 508-528: the command line up to the codec options,
\* for the first invocation or the one without subtitles
PlanCommand(t) ==
    LET f == task[t]
    IN  /\ f.pc = "pl_command"
        /\ \E skip_subtitles \in BOOLEAN :
             LET b == build_map_and_codecs(f.plan.meta, f.plan.main_abs_idx,
                                           skip_subtitles)
                 cmd == b.maps
                        \o <<"-filter:a:" \o ToString(b.main_audio_order),
                             volume_filter(f.gain_db)>>
                        \o b.codecs
             IN  task' = SetTask(t, [f EXCEPT !.pc = "pl_run", !.plan.cmd = cmd])
        /\ UNCHANGED <<fs, doc, heap, lock, main, env, written, watcherVars>>

\* one file whose streams ffprobe has listed
InitPlan ==
    /\ fs = [n \in Names |->
               IF n = Final("a.mkv") THEN SourceFile(0) ELSE NoFile]
    /\ doc = NoDoc
    /\ heap = <<load_state(NoDoc)>>
    /\ \E meta \in StreamLists :
         task = [t \in Tasks |->
                   IF t = 1
                   THEN [NoTask EXCEPT !.pc = "pl_find", !.path = "a.mkv",
                                       !.ref = 1, !.plan.meta = meta]
                   ELSE NoTask]
    /\ env = [p \in Env |-> "none"]
    /\ lock = 0
    /\ main = NoMain
    /\ written = EmptyState
    /\ handler = NoHandler
    /\ sweep = NoSweep
    /\ now = 1

NextPlan == \E t \in Tasks : PlanFind(t) \/ PlanMeasure(t) \/ PlanCommand(t)

SpecPlan == InitPlan /\ [][NextPlan]_vars

----------------------------------------------------------------------------
(* The watcher: VideoFileHandler *)

\* the pending ages that are distinguished
AgeCap == MIN_WAIT_TIME + 2 * STABILITY_SLEEP

\* the sizes of a file that arrives: still being written, or complete
ArrivalSizes == {SmallSize, BigSize}

\* lines 38-40
is_video_file(p, file) == p \in VideoNamed /\ ~should_skip_as_sample(p, file)

\* lines 41-45: pending_files[path] = time.time()
add_to_pending(h, p) == [h EXCEPT !.pending_files[p] = 0]

\* a file appears at p; lines 47-54 run with the file as it is by then
on_created(p) ==
    /\ sweep.pc # "none"
    /\ handler.arrivals < MaxTasks
    /\ ~Exists(Final(p))
    /\ \E z \in ArrivalSizes :
         LET file == [SourceFile(0) EXCEPT !.size = z]
             h == [handler EXCEPT !.arrivals = @ + 1]
         IN  /\ fs' = [fs EXCEPT ![Final(p)] = file]
             /\ handler' = IF is_video_file(p, file)
                           THEN add_to_pending(h, p) ELSE h
    /\ UNCHANGED <<doc, heap, task, lock, main, env, written, sweep, now>>

\* a file is moved onto p; lines 56-63
on_moved(p) ==
    /\ sweep.pc # "none"
    /\ handler.arrivals < MaxTasks
    /\ \E z \in ArrivalSizes :
         LET file == [SourceFile(0) EXCEPT !.size = z]
             h == [handler EXCEPT !.arrivals = @ + 1]
         IN  /\ fs' = [fs EXCEPT ![Final(p)] = file]
             /\ handler' = IF is_video_file(p, file)
                           THEN add_to_pending(h, p) ELSE h
    /\ UNCHANGED <<doc, heap, task, lock, main, env, written, sweep, now>>

\* the writer of a file appends to it; no handler is registered for this
EnvWrite(p) ==
    /\ sweep.pc # "none"
    /\ handler.events < MaxEvents
    /\ Exists(Final(p))
    /\ fs' = [fs EXCEPT ![Final(p)].size =
                           IF @ < BigSize THEN BigSize ELSE @ + 1]
    /\ handler' = [handler EXCEPT !.events = @ + 1]
    /\ UNCHANGED <<doc, heap, task, lock, main, env, written, sweep, now>>

\* a file is deleted or moved away; no handler is registered for this
EnvVanish(p) ==
    /\ sweep.pc # "none"
    /\ handler.events < MaxEvents
    /\ Exists(Final(p))
    /\ fs' = [fs EXCEPT ![Final(p)] = NoFile]
    /\ handler' = [handler EXCEPT !.events = @ + 1]
    /\ UNCHANGED <<doc, heap, task, lock, main, env, written, sweep, now>>

\* one second passes: pending entries age, the current sleep shortens
Tick ==
    LET aged == [p \in Paths |->
                   IF handler.pending_files[p] < 0 THEN -1
                   ELSE IF handler.pending_files[p] < AgeCap
                        THEN handler.pending_files[p] + 1 ELSE AgeCap]
        left == IF sweep.timer > 0 THEN sweep.timer - 1 ELSE 0
    IN  /\ sweep.pc # "none"
        /\ aged # handler.pending_files \/ left # sweep.timer
        /\ handler' = [handler EXCEPT !.pending_files = aged]
        /\ sweep' = [sweep EXCEPT !.timer = left]
        /\ UNCHANGED <<fs, doc, heap, task, lock, main, env, written, now>>

\* lines 102-111: after the sleep, the pending paths that are old enough
SweepCandidates ==
    /\ sweep.pc = "sleep"
    /\ sweep.timer = 0
    /\ sweep' = [sweep EXCEPT
                   !.pc = "check",
                   !.candidates = {p \in Paths :
                       handler.pending_files[p] >= MIN_WAIT_TIME}]
    /\ UNCHANGED <<fs, doc, heap, task, lock, main, env, written, handler, now>>

\* lines 101-102: no candidate is left, time.sleep(3)
SweepSleep ==
    /\ sweep.pc = "check"
    /\ sweep.candidates = {}
    /\ sweep' = [sweep EXCEPT !.pc = "sleep", !.timer = SWEEP_INTERVAL]
    /\ UNCHANGED <<fs, doc, heap, task, lock, main, env, written, handler, now>>

\* lines 114-117 and 67-83: the next candidate; exists, open, size1, sleep(1)
ReadyOpen ==
    /\ sweep.pc = "check"
    /\ \E p \in sweep.candidates :
         \E ok \in Outcomes(p, "open") :
           LET file == fs[Final(p)]
               rest == [sweep EXCEPT !.candidates = @ \ {p}]
           IN  sweep' = IF file = NoFile \/ ~ok \/ file.size = 0
                        THEN rest
                        ELSE [rest EXCEPT !.pc = "size2", !.path = p,
                                          !.size1 = file.size,
                                          !.timer = STABILITY_SLEEP]
    /\ UNCHANGED <<fs, doc, heap, task, lock, main, env, written, handler, now>>

\* a variant of the comparison of two size observations that accepts any two
SameSize_any(size_a, size_b) == size_a >= 0 /\ size_b >= 0

\* lines 87 and 92: two consecutive size observations are identical
SameSize(size_a, size_b) == size_a = size_b

\* lines 84-89 and 94-95: size2, then sleep(1); a missing file is not ready
ReadySize2 ==
    LET file == fs[Final(sweep.path)]
    IN  /\ sweep.pc = "size2"
        /\ sweep.timer = 0
        /\ sweep' = IF file = NoFile \/ ~SameSize(sweep.size1, file.size)
                    THEN [sweep EXCEPT !.pc = "check", !.path = "",
                                       !.size1 = -1]
                    ELSE [sweep EXCEPT !.pc = "size3",
                                       !.timer = STABILITY_SLEEP]
        /\ UNCHANGED <<fs, doc, heap, task, lock, main, env, written,
                       handler, now>>

FreeTasks == {t \in Tasks : task[t].pc = "free"}

\* lines 90-92 and 117-122: size3; a ready path that is still pending is
\* removed from pending_files and submitted to the pool
ReadySize3 ==
    LET file == fs[Final(sweep.path)]
        p == sweep.path
        ready == file # NoFile /\ SameSize(sweep.size1, file.size)
    IN  /\ sweep.pc = "size3"
        /\ sweep.timer = 0
        /\ sweep' = [sweep EXCEPT !.pc = "check", !.path = "", !.size1 = -1]
        /\ IF ready /\ handler.pending_files[p] >= 0
           THEN /\ FreeTasks # {}
                /\ LET t == CHOOSE u \in FreeTasks : \A v \in FreeTasks : u <= v
                   IN  task' = SetTask(t, [NoTask EXCEPT !.pc = "w_queued",
                                                        !.path = p])
                /\ handler' = [handler EXCEPT !.pending_files[p] = -1]
           ELSE UNCHANGED <<task, handler>>
        /\ UNCHANGED <<fs, doc, heap, lock, main, env, written, now>>

\* _process_pending_loop, lines 97-122
process_pending_loop ==
    \/ SweepCandidates
    \/ SweepSleep
    \/ ReadyOpen
    \/ ReadySize2
    \/ ReadySize3

\* a pool thread takes the task and calls _process_file_safe
WatchStart(t) ==
    /\ task[t].pc = "w_queued"
    /\ Cardinality(Running) < WORKERS
    /\ task' = SetTask(t, [task[t] EXCEPT !.pc = "w_load"])
    /\ UNCHANGED <<fs, doc, heap, lock, main, env, written, watcherVars>>

\* line 130: self.state = load_state(STATE_FILE), outside state_lock; an
\* exception is caught and logged at lines 139-140
ReloadState(t) ==
    /\ task[t].pc = "w_load"
    /\ IF load_raises(doc)
       THEN /\ UNCHANGED <<heap, handler>>
            /\ task' = SetTask(t, Finish(task[t], "error"))
       ELSE /\ heap' = Append(heap, load_state(doc))
            /\ handler' = [handler EXCEPT !.state = Len(heap) + 1]
            /\ task' = SetTask(t, [task[t] EXCEPT !.pc = "w_call"])
    /\ UNCHANGED <<fs, doc, lock, main, env, written, sweep, now>>

\* line 132: process_file(path, self.state), with the dict self.state names
\* by now
CallProcess(t) ==
    /\ task[t].pc = "w_call"
    /\ task' = SetTask(t, [task[t] EXCEPT !.pc = "probe",
                                          !.ref = handler.state])
    /\ UNCHANGED <<fs, doc, heap, lock, main, env, written, watcherVars>>

\* _process_file_safe, lines 124-140: whatever process_file raises is logged
process_file_safe(t) ==
    \/ WatchStart(t)
    \/ ReloadState(t)
    \/ CallProcess(t)
    \/ process_file(t)

\* the faults of a watcher session: no fault, or a file that another
\* process locks from time to time
WatchModes == {"none", "open"}

\* a temporary file left behind by a session that was interrupted
OrphanTmp == [size |-> SmallSize, mtime |-> 0, data |-> 0]

\* watch.py, entry of main: an empty watched tree, but for the temporary
\* files of the given paths
InitWatcher(orphans) ==
    /\ fs = [n \in Names |->
               IF \E p \in orphans : n = Tmp(p) THEN OrphanTmp ELSE NoFile]
    /\ doc = NoDoc
    /\ heap = <<>>
    /\ task = [t \in Tasks |-> NoTask]
    /\ lock = 0
    /\ main = [NoMain EXCEPT !.pc = "w_main"]
    /\ \E m \in WatchModes :
         env = [p \in Env |-> IF p = FaultyPath THEN m ELSE "none"]
    /\ written = EmptyState
    /\ handler = NoHandler
    /\ sweep = NoSweep
    /\ now = 0

InitWatch == InitWatcher({})

\* main, lines 143-174: the banner, then VideoFileHandler() (lines 26-36:
\* self.state = load_state(STATE_FILE), the pool, the sweep thread) and the
\* observers; an exception of load_state ends main
WatcherInit ==
    /\ main.pc = "w_main"
    /\ IF load_raises(doc)
       THEN /\ main' = [main EXCEPT !.pc = "crashed"]
            /\ UNCHANGED <<heap, handler, sweep>>
       ELSE /\ main' = [main EXCEPT !.pc = "w_run"]
            /\ heap' = <<load_state(doc)>>
            /\ handler' = [NoHandler EXCEPT !.state = 1]
            /\ sweep' = [NoSweep EXCEPT !.pc = "sleep", !.timer = SWEEP_INTERVAL]
    /\ UNCHANGED <<fs, doc, task, lock, env, written, now>>

\* the observer threads, the sweep thread and the pool run once main has
\* built the handler (their actions wait for the sweep thread to exist)
NextWatch ==
    \/ WatcherInit
    \/ \E p \in Paths : on_created(p)
    \/ \E p \in Paths : on_moved(p)
    \/ \E p \in Paths : EnvWrite(p)
    \/ \E p \in Paths : EnvVanish(p)
    \/ Tick
    \/ process_pending_loop
    \/ \E t \in Tasks : process_file_safe(t)

SpecWatch == InitWatch /\ [][NextWatch]_vars

\* the watcher started in a tree that holds an orphaned temporary file
InitOrphan == InitWatcher({"b.mkv"})

SpecOrphan == InitOrphan /\ [][NextWatch]_vars

\* The observer reports the rename of line 395 (temporary output onto the
\* original path) of the workflow at p: on_moved, lines 56-63, with the
\* original path as dest_path. The event is delivered before the backup is
\* removed, once per publish.
ObserverMoved(p) ==
    /\ sweep.pc # "none"
    /\ \E t \in Tasks : task[t].path = p /\ task[t].pc = "sw_rmbak"
    /\ \A t \in Tasks :
         task[t].path = p => task[t].pc \in {"sw_rmbak", "finished"}
    /\ handler.pending_files[p] < 0
    /\ is_video_file(p, fs[Final(p)])
    /\ handler' = add_to_pending(handler, p)
    /\ UNCHANGED <<fs, doc, heap, task, lock, main, env, written, sweep, now>>

\* a watcher session without faults
InitOwn == InitWatcher({}) /\ env[FaultyPath] = "none"

\* files are created in the watched tree and may be taken away again; the
\* only move events are those of the workflows' own renames
NextOwn ==
    \/ WatcherInit
    \/ \E p \in Paths : on_created(p)
    \/ \E p \in Paths : EnvVanish(p)
    \/ \E p \in Paths : ObserverMoved(p)
    \/ Tick
    \/ process_pending_loop
    \/ \E t \in Tasks : process_file_safe(t)

\* the watcher with the events of its own renames
SpecOwn == InitOwn /\ [][NextOwn]_vars

\* the main thread, the sweep thread, the pool threads and the clock keep
\* running
FairSpecWatch ==
    /\ SpecWatch
    /\ WF_vars(WatcherInit)
    /\ WF_vars(Tick)
    /\ WF_vars(process_pending_loop)
    /\ \A t \in Tasks : WF_vars(process_file_safe(t))

----------------------------------------------------------------------------
(* Claims about atomic_swap_with_retry *)

InSwap(f) == f.pc \in {"sw_stale", "sw_ren1", "sw_ren2", "sw_except"}

\* C1: when atomic_swap_with_retry returns, true or false, a file exists at
\* the original (final) path, whatever unlink and rename steps failed.
C1_OriginalNeverMissing ==
    \A t \in Tasks :
        task[t].pc = "after_swap" => Exists(Final(task[t].path))

\* C2: during a publish call, until the temporary output has been renamed
\* onto the original path, the original file's content is on disk at the
\* original path or at a backup path; the stale-backup removal of a later
\* attempt does not delete the backup that holds the original.
C2_RollbackCopyKept ==
    \A t \in Tasks :
        InSwap(task[t]) =>
            \E n \in {Final(task[t].path)} \cup BakNames(task[t].path) :
                fs[n] = task[t].orig

----------------------------------------------------------------------------
(* Claims about scan_and_process and should_process *)

\* C5: a failure on one file never stops a batch run: the run ends only once
\* every candidate of the scan has been examined, so the other files of the
\* run are still taken through their workflow.
C5_RunSurvivesFileFailure ==
    main.pc \in {"done", "crashed"} => main.i > Len(main.candidates)

PastMeasure ==
    {"already", "already_save", "transcode", "fallback", "transcode_nosub",
     "validate", "sw_stale", "sw_ren1", "sw_ren2", "sw_rmbak", "sw_except",
     "after_swap", "record", "record_save", "finally"}

\* C6: a file whose computed gain is at most 0.05 dB is not transcoded and
\* not published: its workflow only stores a record with the file's current
\* signature and fingerprint, saves the store and returns false.
C6_AlreadyNormalisedOnlyRecords ==
    \A t \in Tasks :
        LET f == task[t]
            p == f.path
        IN  /\ (f.pc \in PastMeasure /\ f.gain_db <= EPSILON_DB)
                   => f.pc \in {"already", "already_save"}
            /\ f.pc = "already_save"
                   => /\ heap[f.ref][p] = FreshRecord(fs[Final(p)])
                      /\ fs[Tmp(p)] = NoFile
            /\ (f.pc = "finished" /\ f.result = "already")
                   => /\ doc.kind = "ok"
                      /\ doc.files[p].sig = file_signature(fs[Final(p)])
                      /\ doc.files[p].qfp =
                             compute_quick_fingerprint(fs[Final(p)])
                      /\ fs[Tmp(p)] = NoFile
                      /\ Returned(f.result) = "False"

C6_Witness ==
    \E t \in Tasks :
        /\ task[t].pc = "finished"
        /\ task[t].result = "already"
        /\ doc.files[task[t].path] = FreshRecord(fs[Final(task[t].path)])

\* C7: a file whose workflow stored a record in one run, and that nobody
\* changed since, is not processed by the next run: should_process returns
\* false for it without reading its content, and no task is made for it.
C7_NextRunSkipsUnchanged ==
    main.pc \in {"filter", "wait"} =>
        \A p \in main.done \ main.changed :
            /\ main.last.path = p
                   => (main.last.ret = "False" /\ ~main.last.hashed)
            /\ \A i \in 1..Len(main.to_do) : main.to_do[i] # p
            /\ \A t \in Tasks : task[t].path # p

C7_Witness ==
    /\ main.pc = "filter"
    /\ main.last.path \in main.done \ main.changed
    /\ main.last.ret = "False"

FilterEnabled == main.pc = "filter" /\ main.i <= Len(main.candidates)

\* C8: for a qualifying file that has a record whose signature equals the
\* file's current signature, should_process returns false, computes no
\* fingerprint and leaves the store, in memory and on disk, as it was.
C8_SameSignatureSkips ==
    [][FilterEnabled =>
         LET p == main.candidates[main.i]
             rec == heap[main.ref][p]
         IN  (/\ ~should_skip_as_sample(p, fs[Final(p)])
              /\ rec # NoRec
              /\ rec.sig = file_signature(fs[Final(p)]))
             => /\ main'.last = [path |-> p, ret |-> "False", hashed |-> FALSE]
                /\ main'.to_do = main.to_do
                /\ heap' = heap
                /\ doc' = doc]_vars

C8_Witness ==
    /\ main.last.ret = "False"
    /\ ~main.last.hashed
    /\ main.last.path \in Paths
    /\ heap[main.ref][main.last.path] # NoRec
    /\ heap[main.ref][main.last.path].sig =
           file_signature(fs[Final(main.last.path)])

\* C9: for a qualifying file that has a record whose signature differs from
\* the file's current signature while the fingerprint read from the file
\* equals the stored one, should_process returns false, replaces the stored
\* signature by the current one, keeps the fingerprint, saves the store and
\* changes the record of no other path.
C9_DriftRefreshesSignature ==
    [][FilterEnabled =>
         LET p == main.candidates[main.i]
             rec == heap[main.ref][p]
             file == fs[Final(p)]
         IN  (/\ ~should_skip_as_sample(p, file)
              /\ rec # NoRec
              /\ rec.sig # file_signature(file)
              /\ rec.qfp = compute_quick_fingerprint(file)
              /\ main'.last.ret # "raise")
             => /\ main'.last = [path |-> p, ret |-> "False", hashed |-> TRUE]
                /\ main'.to_do = main.to_do
                /\ heap'[main.ref][p].sig = file_signature(file)
                /\ heap'[main.ref][p].qfp = rec.qfp
                /\ doc'.kind = "ok"
                /\ doc'.files[p] = heap'[main.ref][p]
                /\ \A q \in Paths \ {p} :
                     /\ heap'[main.ref][q] = heap[main.ref][q]
                     /\ doc'.files[q] = doc.files[q]]_vars

C9_Witness ==
    /\ main.last.ret = "False"
    /\ main.last.hashed
    /\ main.last.path \in Paths
    /\ doc.files[main.last.path].sig = file_signature(fs[Final(main.last.path)])
    /\ doc.files[main.last.path].done_at = now

----------------------------------------------------------------------------
(* Claims about the Fingerprint Store under concurrent workers *)

\* the workflow of task t is at one of its two store writes (lines 624-631,
\* 704-712) and takes the step
StoreWrite(t) ==
    /\ task[t].pc \in {"already", "already_save", "record", "record_save"}
    /\ task'[t] # task[t]

\* C3: the record of a path, in a state dict in memory or in the persisted
\* document, is created or changed only by a step of should_process that
\* found a drifted signature with an unchanged fingerprint for that path, or
\* by a store write of a workflow of that path that found the file already
\* normalised or published its output; nothing else, and no workflow that
\* fails, changes it.
C3_RecordWrittenOnlyOnSuccess ==
    [][\A p \in Paths :
         (\/ doc'.files[p] # doc.files[p]
          \/ /\ Len(heap') = Len(heap)
             /\ \E r \in 1..Len(heap) : heap'[r][p] # heap[r][p])
         => \/ /\ FilterEnabled
               /\ main'.last = [path |-> p, ret |-> "False", hashed |-> TRUE]
            \/ \E t \in Tasks : task[t].path = p /\ StoreWrite(t)]_vars

AllFinished == \A t \in Tasks : task[t].pc \in {"free", "finished"}

\* C4: no update of the store is lost: once all workers have finished, the
\* persisted document holds, for every path whose workflow stored a record
\* (success or already normalised), the record that workflow wrote.
C4_NoLostUpdate ==
    AllFinished =>
        \A p \in Paths : written[p] # NoRec => doc.files[p] = written[p]

----------------------------------------------------------------------------
(* Claims about the pending set of the watcher *)

\* C10: no entry of pending_files for a vanished file stays pending forever:
\* a path that is pending while its file is gone eventually leaves
\* pending_files (or its file is back, to be dispatched once stable).
C10_PendingEventuallyLeaves ==
    \A p \in Paths :
        (handler.pending_files[p] >= 0 /\ ~Exists(Final(p)))
            ~> (handler.pending_files[p] < 0 \/ Exists(Final(p)))

\* the sweep thread submits path p to the pool in this step
Dispatched(p) ==
    \E t \in Tasks :
        /\ task[t].pc = "free"
        /\ task'[t].pc = "w_queued"
        /\ task'[t].path = p

C12_DispatchAfterWaitAndCheck ==
    [][\A p \in Paths :
         Dispatched(p) =>
             handler.pending_files[p] >= MIN_WAIT_TIME + 2 * STABILITY_SLEEP]_vars

----------------------------------------------------------------------------
(* Claims about the per-file workflow *)

SwapPcs == {"sw_stale", "sw_ren1", "sw_ren2", "sw_rmbak", "sw_except"}

\* the workflow of task t moves to position pc in this step
Enters(t, pc) == task[t].pc # pc /\ task'[t].pc = pc

\* C13: a workflow invokes the transcode at most twice: with subtitles once,
\* after the measurement, and without subtitles only after the first
\* invocation failed with a subtitle/container diagnostic and once the failed
\* temporary output is gone; any other first failure and any failure of the
\* second invocation end the workflow with an error and without a publish.
C13_TranscodeAtMostTwice ==
    [][\A t \in Tasks :
         /\ Enters(t, "transcode") => task[t].pc = "measure"
         /\ Enters(t, "fallback")
              => task[t].pc = "transcode" /\ task'[t].error_msg = "subtitle"
         /\ Enters(t, "transcode_nosub")
              => /\ task[t].pc = "fallback"
                 /\ task[t].error_msg = "subtitle"
                 /\ fs'[Tmp(task[t].path)] = NoFile
         /\ (task[t].pc = "transcode" /\ task'[t].pc # "transcode")
              => \/ task'[t].pc = "validate"
                 \/ task'[t].pc = "fallback"
                 \/ task'[t].pc = "finally" /\ task'[t].result = "error"
         /\ (task[t].pc = "transcode_nosub" /\ task'[t].pc # "transcode_nosub")
              => \/ task'[t].pc = "validate"
                 \/ task'[t].pc = "finally" /\ task'[t].result = "error"
         /\ Enters(t, "validate")
              => task[t].pc \in {"transcode", "transcode_nosub"}
         /\ Enters(t, "sw_stale")
              => task[t].pc \in {"validate", "sw_except"}
         /\ (task[t].pc = "finally" /\ task[t].result = "error")
              => task'[t].pc \in {"finally", "finished"}]_vars

C13_Witness ==
    \E t \in Tasks :
        /\ task[t].pc = "validate"
        /\ task[t].error_msg = "subtitle"
        /\ Exists(Tmp(task[t].path))

\* C14 (as stated): the swap is attempted only if the temporary output
\* exists and is strictly larger than the minimum output size of 1024 bytes.
C14_PublishOnlyAboveMinimum ==
    [][\A t \in Tasks :
         (task[t].pc = "validate" /\ task'[t].pc = "sw_stale")
             => /\ Exists(Tmp(task[t].path))
                /\ fs[Tmp(task[t].path)].size > MIN_OUTPUT_FILE_SIZE_BYTES]_vars

\* C14 (amended): the swap is attempted only if the temporary output exists
\* and has at least the minimum output size of 1024 bytes; otherwise the
\* workflow ends with an error, with no rename and no store update.
C14_PublishOnlyFromMinimum ==
    [][\A t \in Tasks :
         LET p == task[t].path
         IN  /\ (Enters(t, "sw_stale") /\ task[t].pc # "sw_except")
                  => /\ task[t].pc = "validate"
                     /\ Exists(Tmp(p))
                     /\ fs[Tmp(p)].size >= MIN_OUTPUT_FILE_SIZE_BYTES
             /\ (task[t].pc = "validate" /\ task'[t].pc # "validate"
                   /\ ~(Exists(Tmp(p))
                          /\ fs[Tmp(p)].size >= MIN_OUTPUT_FILE_SIZE_BYTES))
                  => /\ task'[t].pc = "finally"
                     /\ task'[t].result = "error"
                     /\ ~task'[t].swap_success
             /\ (task[t].pc = "finally" /\ task[t].result = "error"
                   /\ task'[t] # task[t])
                  => /\ task'[t].pc = "finished"
                     /\ fs' = fs
                     /\ heap' = heap
                     /\ doc' = doc]_vars

C14_Witness ==
    \E t \in Tasks :
        /\ task[t].pc = "sw_stale"
        /\ task[t].attempt = 1
        /\ fs[Tmp(task[t].path)].size = MIN_OUTPUT_FILE_SIZE_BYTES

\* C15: when atomic_swap_with_retry has returned false, the temporary output
\* that passed validation is still on disk, from the return of the swap to
\* the return of the workflow, and the workflow returns False.
C15_FailedSwapKeepsTmp ==
    \A t \in Tasks :
        LET f == task[t]
        IN  (\/ f.pc = "after_swap" /\ ~f.ok
             \/ f.pc \in {"finally", "finished"} /\ f.result = "swapfail")
            => /\ ValidOutput(fs[Tmp(f.path)])
               /\ ~f.swap_success
               /\ f.pc = "finished" => Returned(f.result) = "False"

C15_Witness ==
    \E t \in Tasks :
        /\ task[t].pc = "finished"
        /\ task[t].result = "swapfail"
        /\ Exists(Tmp(task[t].path))

\* C16: a workflow that ends with a transcode error (a failed or timed-out
\* transcode, a missing or undersized output) without a swap attempt leaves
\* no temporary output file for its path when it returns.
C16_TranscodeErrorCleansTmp ==
    [][\A t \in Tasks :
         (/\ task[t].pc = "finally"
          /\ task[t].result = "error"
          /\ ~task[t].swap_success
          /\ task'[t].pc = "finished")
         => fs'[Tmp(task[t].path)] = NoFile]_vars

\* C17: whatever the state file holds (nothing, unreadable or undecodable
\* bytes, no JSON, no object, no "files", a "files" that is no mapping),
\* load_state yields an empty store and neither load_state nor the change
\* detection that follows ends the run.
C17_MalformedStateTolerated ==
    [][/\ main.pc = "load" =>
            /\ main'.pc = "collect"
            /\ doc.kind # "ok" => heap'[main'.ref] = EmptyState
       /\ (main.pc = "filter" /\ main'.pc = "crashed") =>
            heap[main.ref] # NotAMapping]_vars

\* C18: during and after save_state the state file holds the complete
\* previous document or the complete new one, never a partial one; a save
\* that fails leaves the previous document and returns to its caller.
C18_SaveIsAtomic ==
    [][\A t \in Tasks :
         LET installs == /\ doc'.kind = "ok"
                         /\ doc'.files = heap[task[t].ref]
                         /\ task[t].pc = "sv_replace"
                         /\ task'[t].pc = "sv_return"
                         /\ task'[t].ok
             keeps == /\ doc'.kind = doc.kind
                      /\ doc'.files = doc.files
                      /\ task'[t].pc = "sv_return" => ~task'[t].ok
         IN  task[t].pc \in {"sv_write", "sv_replace", "sv_except"}
               => /\ installs \/ keeps
                  /\ task'[t].pc \in {"sv_replace", "sv_except", "sv_return"}
                  /\ task[t].pc = "sv_except" => task'[t].pc = "sv_return"]_vars

\* a save has failed after writing part of the tmp file, and the document
\* that differs from the store is still in place
C18_Witness ==
    \E t \in Tasks :
        /\ task[t].pc = "sv_return"
        /\ ~task[t].ok
        /\ doc.kind = "ok"
        /\ doc.files # heap[task[t].ref]
        /\ doc.tmp = PartialTmp

\* C19: at the start of the batch run and of the watcher the sweep of
\* orphaned temporary files is over before the state is loaded, before a
\* candidate is enumerated and before a workflow starts, and it has removed
\* every temporary file.
C19_SweepBeforeWork ==
    (\/ main.pc \in {"load", "collect", "filter", "wait", "done", "w_run"}
     \/ \E t \in Tasks : task[t].pc # "free")
        => \A p \in Paths : fs[Tmp(p)] # OrphanTmp

\* C20: once the original is renamed to the backup and the temporary output
\* onto the original path, a backup that cannot be deleted does not fail the
\* publish: atomic_swap_with_retry returns true without another attempt and
\* the backup stays.
C20_BackupKeptSwapSucceeds ==
    [][\A t \in Tasks :
         LET f == task[t]
             b == Bak(f.path, f.bk)
         IN  (f.pc = "sw_rmbak" /\ task'[t].pc # "sw_rmbak")
               => /\ task'[t].pc = "after_swap"
                  /\ task'[t].ok
                  /\ task'[t].attempt = f.attempt
                  /\ fs'[Final(f.path)] = fs[Final(f.path)]
                  /\ fs'[b] # NoFile => fs' = fs]_vars

\* the swap has returned true with the new file in place and the backup of
\* the original still there
C20_Witness ==
    \E t \in Tasks :
        /\ task[t].pc = "after_swap"
        /\ task[t].ok
        /\ fs[Bak(task[t].path, task[t].bk)] = task[t].orig
        /\ fs[Final(task[t].path)] # task[t].orig
        /\ fs[Final(task[t].path)] # NoFile

\* the stream of absolute index i in a stream list
StreamAt(meta, i) == meta[i + 1]

\* C21: the main audio stream is the first audio stream, in container order,
\* whose default flag is set, or else the first audio stream; a list without
\* audio stream yields none, and the workflow ends without a transcode and
\* without touching the store.
C21_MainAudioSelection ==
    [][\A t \in Tasks :
         LET meta == task[t].plan.meta
             idx == task'[t].plan.main_abs_idx
             audio == {i \in 0..(Len(meta) - 1) :
                         StreamAt(meta, i).codec_type = "audio"}
             flagged == {i \in audio : StreamAt(meta, i).default = 1}
         IN  (task[t].pc = "pl_find" /\ task'[t].pc # "pl_find")
               => /\ audio = {}
                       => /\ task'[t].pc = "finished"
                          /\ task'[t].result = "noaudio"
                          /\ Returned(task'[t].result) = "False"
                          /\ UNCHANGED <<fs, doc, heap>>
                  /\ audio # {}
                       => /\ task'[t].pc = "pl_measure"
                          /\ idx \in audio
                          /\ flagged # {}
                               => idx \in flagged /\ \A i \in flagged : idx <= i
                          /\ flagged = {} => \A i \in audio : idx <= i]_vars

\* a flagged audio stream was chosen over an audio stream before it
C21_Witness ==
    \E t \in Tasks :
        LET meta == task[t].plan.meta
            idx == task[t].plan.main_abs_idx
        IN  /\ task[t].pc = "pl_measure"
            /\ idx > 0
            /\ StreamAt(meta, idx).default = 1
            /\ \E i \in 0..(idx - 1) : StreamAt(meta, i).codec_type = "audio"

\* the command line holds option opt followed by value val
Has(cmd, opt, val) ==
    \E i \in 1..(Len(cmd) - 1) : cmd[i] = opt /\ cmd[i + 1] = val

\* how often the command line holds option opt
Count(cmd, opt) == Cardinality({i \in 1..Len(cmd) : cmd[i] = opt})

\* the audio filter options a command line can hold
FilterOptions ==
    {"-af", "-filter:a", "-filter_complex"}
    \cup {"-filter:a:" \o ToString(k) : k \in 0..(MaxStreams + 1)}

\* C22: gain filter and re-encode go to exactly one output audio position,
\* the number of audio streams before the main audio stream; every other
\* audio stream and the video, subtitle and data streams that are mapped are
\* copied.
C22_OnlyMainAudioReencoded ==
    \A t \in Tasks :
        LET meta == task[t].plan.meta
            idx == task[t].plan.main_abs_idx
            cmd == task[t].plan.cmd
            audio == {i \in 0..(Len(meta) - 1) :
                        StreamAt(meta, i).codec_type = "audio"}
            pos == Cardinality({i \in audio : i < idx})
            A(k) == ToString(k)
            all == cmd[1] = "-map" /\ cmd[2] = "0"
        IN  task[t].pc = "pl_run"
              => /\ \A o \in FilterOptions :
                      Count(cmd, o) = IF o = "-filter:a:" \o A(pos) THEN 1 ELSE 0
                 /\ Has(cmd, "-filter:a:" \o A(pos), volume_filter(task[t].gain_db))
                 /\ Count(cmd, "-c:a:" \o A(pos)) = 1
                 /\ ~Has(cmd, "-c:a:" \o A(pos), "copy")
                 /\ Has(cmd, "-c:a:" \o A(pos),
                        encoder_for_codec(StreamAt(meta, idx).codec_name))
                 /\ \A k \in 0..(Cardinality(audio) - 1) :
                      k # pos => /\ Count(cmd, "-c:a:" \o A(k)) = 1
                                 /\ Has(cmd, "-c:a:" \o A(k), "copy")
                 /\ Count(cmd, "-c:a") = 0
                 /\ Count(cmd, "-c:v") = 1 /\ Has(cmd, "-c:v", "copy")
                 /\ Count(cmd, "-c:d") = 1 /\ Has(cmd, "-c:d", "copy")
                 /\ all => Count(cmd, "-c:s") = 1 /\ Has(cmd, "-c:s", "copy")
                 /\ ~all => /\ SubSeq(cmd, 1, 4) = <<"-map", "0:v?", "-map", "0:a">>
                            /\ Count(cmd, "-map") = 2
                            /\ Count(cmd, "-c:s") = 0

\* the command line of a file whose main audio stream comes after a video
\* stream and another audio stream: absolute index 2, audio position 1
C22_Witness ==
    \E t \in Tasks :
        /\ task[t].pc = "pl_run"
        /\ task[t].plan.main_abs_idx = 2
        /\ StreamAt(task[t].plan.meta, 0).codec_type = "video"
        /\ StreamAt(task[t].plan.meta, 1).codec_type = "audio"
        /\ Has(task[t].plan.cmd, "-filter:a:1", volume_filter(task[t].gain_db))
        /\ Has(task[t].plan.cmd, "-c:a:0", "copy")

\* the audio position of the main audio stream of a frame
MainPosition(f) ==
    Cardinality({i \in 0..(f.plan.main_abs_idx - 1) :
                   StreamAt(f.plan.meta, i).codec_type = "audio"})

\* C23 as stated: with a peak of -3.0 dBFS and the target of -0.1 dBFS the
\* gain is +2.9 dB, the transcode is invoked and the gain filter handed to
\* the engine reads "+2.90dB" (signed, two decimals) at the main audio's
\* output position.
C23_GainTextTwoDecimals ==
    \A t \in Tasks :
        (task[t].pc = "pl_run" /\ task[t].gain_db = TARGET_PEAK_DBFS + 300)
          => \/ Has(task[t].plan.cmd,
                    "-filter:a:" \o ToString(MainPosition(task[t])), "+2.90dB")
             \/ Has(task[t].plan.cmd,
                    "-filter:a:" \o ToString(MainPosition(task[t])),
                    "volume=+2.90dB")

\* C23 amended: with a peak of -3.0 dBFS and the target of -0.1 dBFS the gain
\* is +2.9 dB, the transcode is invoked and the gain filter handed to the
\* engine reads "volume=+2.900dB" (signed, three decimals) at the main
\* audio's output position.
C23_GainTextThreeDecimals ==
    [][\A t \in Tasks :
         /\ (task[t].pc = "pl_measure"
               /\ task'[t].gain_db = TARGET_PEAK_DBFS + 300
               /\ task'[t].pc # "pl_measure")
              => /\ task'[t].gain_db = 290
                 /\ task'[t].gain_db > EPSILON_DB
                 /\ task'[t].pc = "pl_command"
         /\ (task[t].pc = "pl_command" /\ task[t].gain_db = 290
               /\ task'[t].pc # "pl_command")
              => /\ task'[t].pc = "pl_run"
                 /\ Has(task'[t].plan.cmd,
                        "-filter:a:" \o ToString(MainPosition(task[t])),
                        "volume=+2.900dB")
                 /\ Count(task'[t].plan.cmd, "volume=+2.900dB") = 1]_vars

\* the command line for a gain of +2.9 dB has been built
C23_Witness ==
    \E t \in Tasks :
        /\ task[t].pc = "pl_run"
        /\ task[t].gain_db = 290
        /\ Has(task[t].plan.cmd, "-filter:a:0", "volume=+2.900dB")

\* C24: atomic_swap_with_retry always returns: it makes at most RETRIES (6)
\* attempts, returns true at the first attempt whose two renames succeed,
\* false once the cap is reached, and false at once, without another
\* attempt, when the temporary file is missing after a failed attempt.
C24_SwapTerminates ==
    /\ [][\A t \in Tasks :
            LET f == task[t]
                g == task'[t]
            IN  /\ g.attempt <= RETRIES
                /\ (f.pc = "sw_except" /\ g.pc # "sw_except")
                     => IF ~Exists(Tmp(f.path))
                        THEN g.pc = "after_swap" /\ ~g.ok /\ g.attempt = f.attempt
                        ELSE IF f.attempt = RETRIES
                             THEN g.pc = "after_swap" /\ ~g.ok
                             ELSE g.pc = "sw_stale" /\ g.attempt = f.attempt + 1
                /\ (f.pc = "sw_ren2" /\ g.pc # "sw_ren2" /\ fs'[Final(f.path)] # fs[Final(f.path)])
                     => g.pc = "sw_rmbak" /\ g.attempt = f.attempt
                /\ (f.pc = "sw_rmbak" /\ g.pc # "sw_rmbak")
                     => g.pc = "after_swap" /\ g.ok /\ g.attempt = f.attempt
                /\ (Enters(t, "after_swap") /\ g.ok) => f.pc = "sw_rmbak"
                /\ Enters(t, "sw_stale") => f.pc = "sw_except"]_vars
    /\ \A t \in Tasks : task[t].pc \in SwapPcs ~> task[t].pc = "after_swap"

\* the call has returned false after its last attempt, the temporary output
\* still there
C24_Witness ==
    \E t \in Tasks :
        /\ task[t].pc = "after_swap"
        /\ ~task[t].ok
        /\ task[t].attempt = RETRIES
        /\ Exists(Tmp(task[t].path))

\* the frame is inside process_file
InWorkflow(f) ==
    f.pc \notin {"free", "queued", "w_queued", "w_load", "w_call", "finished"}

\* C25: no two workers are inside the workflow of the same path at the same
\* time: the batch run submits each candidate once, and the watcher does not
\* dispatch a path again while its earlier workflow is running, whatever
\* events arrive for it.
C25_OneWorkflowPerPath ==
    \A t1, t2 \in Tasks :
        (t1 # t2 /\ InWorkflow(task[t1]) /\ InWorkflow(task[t2]))
            => task[t1].path # task[t2].path

\* C26: the renames of the workflow's own publish step do not make the
\* published path pending again: the watcher dispatches a path only for an
\* external creation or move event, so there are never more dispatches than
\* such events.
C26_OwnRenameNotRedispatched ==
    [][\A p \in Paths :
         Dispatched(p) =>
             Cardinality({t \in Tasks : task[t].pc # "free"}) < handler.arrivals]_vars

====
